---- MODULE Spec2Model ----
(***************************************************************************)
(* Model of tableauserverclient/server/endpoint/datasources_endpoint.py:   *)
(* the Datasources endpoint.  Every public method is a linear handler that *)
(* validates its arguments, calls collaborators (the HTTP transport, the   *)
(* file-upload session manager, the tag updater, the file system) and maps *)
(* the response.  The model records, for the call in progress or the call  *)
(* that ended last, its arguments, the ordered trace of collaborator calls *)
(* it issued and how it ended.                                             *)
(***************************************************************************)
EXTENDS Integers, Sequences, FiniteSets, TLC

VARIABLES
    version,    \* parent_srv.version as <<major, minor>>
    pc,         \* position of the call: "idle" before it, "done" once it has ended
    op,         \* name of the current / last public method called
    args,       \* its arguments
    calls,      \* ordered trace of the collaborator calls it issued
    outcome,    \* how it ended: return value or raised exception
    item,       \* the caller's datasource item as the call left it
    resp,       \* the streamed download response: open count, headers, chunks
    dest        \* download destination: stream writes, files created

vars == <<version, pc, op, args, calls, outcome, item, resp, dest>>

-----------------------------------------------------------------------------
(* Values *)

\* Python's None
NoneV == "<None>"

\* Python truthiness of an Optional[str]
Falsy(x) == x = NoneV \/ x = ""

\* f"{x}" of an Optional[str]
Fmt(x) == IF x = NoneV THEN "None" ELSE x

\* f"{b}" of a bool
FmtBool(b) == IF b THEN "True" ELSE "False"

\* Datasource ids a caller may pass
Ids == {NoneV, "", "abc123"}

\* Revision numbers a caller may pass
Revs == {NoneV, "", "5"}

\* Server API versions the model runs against
Versions == {<<3, 9>>, <<3, 14>>, <<3, 15>>, <<4, 0>>}

\* Longest list of parsed items in a server response
MaxItems == 2

\* Ids of the items a response parses to
RespIds == {"abc123", "other"}

\* from_response(...): the lists a response body may parse to
RECURSIVE SeqsUpTo(_, _)
SeqsUpTo(S, n) ==
    IF n = 0 THEN {<<>>}
    ELSE LET shorter == SeqsUpTo(S, n - 1)
         IN  shorter \cup {Append(s, x) : s \in {t \in shorter : Len(t) = n - 1}, x \in S}

Parsed == SeqsUpTo(RespIds, MaxItems)

\* Server.check_at_least_version: numeric comparison of major, then minor.
\* Each public method is entered only on a server that has its @api version.
check_at_least_version(v, need) ==
    \/ v[1] > need[1]
    \/ v[1] = need[1] /\ v[2] >= need[2]

\* Datasources.baseurl
baseurl == <<"sites", "site1", "datasources">>

\* RequestFactory.Empty.empty_req()
empty_req == "<tsRequest/>"

\* One collaborator call in the trace, with what the collaborator answered:
\* ok = it returned, err/code = what it raised, parsed = the list its response
\* body parses to
Call(kind, path, query, body) ==
    [kind |-> kind, path |-> path, query |-> query, body |-> body,
     reqid |-> NoneV, ok |-> TRUE, err |-> NoneV, code |-> 0, parsed |-> <<>>]

\* The collaborator raised e instead of returning
Failed(c, e) == [c EXCEPT !.ok = FALSE, !.err = e]

Answered(c, items) == [c EXCEPT !.parsed = items]

\* The calls that go over the network
NetKinds == {"GET", "POST", "PUT", "PATCH", "DELETE", "UPLOAD", "TAGS"}

IsNet(c) == c.kind \in NetKinds

NetCalls(tr) == SelectSeq(tr, IsNet)

OfKind(tr, k) == SelectSeq(tr, LAMBDA c : c.kind = k)

\* Values a call returns: which object, and the id it carries
Val(obj, id) == [obj |-> obj, id |-> id]

\* Endings of a call
NoOutcome == [kind |-> "none", exc |-> NoneV, code |-> 0, content |-> NoneV, value |-> Val("None", NoneV)]

Return(v) == [NoOutcome EXCEPT !.kind = "return", !.value = v]

Raise(e) == [NoOutcome EXCEPT !.kind = "raise", !.exc = e]

\* Failures the HTTP layer may raise from a request
TransportErrors == {"ServerResponseError", "InternalServerError"}

NoResp == [open |-> 0, cd |-> [present |-> FALSE, filename |-> <<>>], chunks |-> <<>>, body |-> <<>>]

NoDest == [written |-> <<>>, files |-> {}, path |-> NoneV]

\* The caller's item: id, name, and the lazy fetcher a populate call installed
Item(id, name) == [id |-> id, name |-> name, fetcher |-> NoneV]

NoItem == Item(NoneV, NoneV)

\* A call that ends in one step, leaving the caller's item as it
Finish(o, a, tr, out, it) ==
    /\ pc = "idle"
    /\ pc' = "done"
    /\ op' = o
    /\ args' = a
    /\ calls' = tr
    /\ outcome' = out
    /\ item' = it
    /\ resp' = NoResp
    /\ dest' = NoDest
    /\ UNCHANGED version

\* First that takes the last element
First_Last(obj, items) ==
    IF items = <<>> THEN Raise("IndexError") ELSE Return(Val(obj, items[Len(items)]))

\* JobItem.from_response(...)[0] / DatasourceItem.from_response(...)[0]
First(obj, items) ==
    IF items = <<>> THEN Raise("IndexError") ELSE Return(Val(obj, items[1]))

-----------------------------------------------------------------------------
(* Query and delete *)

get_by_id ==
    /\ pc = "idle"
    /\ check_at_least_version(version, <<2, 0>>)
    /\ \E datasource_id \in Ids :
        LET a == [datasource_id |-> datasource_id]
            url == baseurl \o <<Fmt(datasource_id)>>
            get == Call("GET", url, <<>>, NoneV)
        IN  IF Falsy(datasource_id)
            THEN Finish("get_by_id", a, <<>>, Raise("ValueError"), NoItem)
            ELSE \/ \E e \in TransportErrors :
                      Finish("get_by_id", a, <<Failed(get, e)>>, Raise(e), NoItem)
                 \/ \E items \in Parsed :
                      Finish("get_by_id", a, <<Answered(get, items)>>, First("datasource", items), NoItem)

delete ==
    /\ pc = "idle"
    /\ check_at_least_version(version, <<2, 0>>)
    /\ \E datasource_id \in Ids :
        LET a == [datasource_id |-> datasource_id]
            url == baseurl \o <<Fmt(datasource_id)>>
            del == Call("DELETE", url, <<>>, NoneV)
        IN  IF Falsy(datasource_id)
            THEN Finish("delete", a, <<>>, Raise("ValueError"), NoItem)
            ELSE \/ \E e \in TransportErrors :
                      Finish("delete", a, <<Failed(del, e)>>, Raise(e), NoItem)
                 \/ Finish("delete", a, <<del>>, Return(Val("None", NoneV)), NoItem)

\* revision_args_missing with "and" for "or"
revision_args_missing_Both(datasource_id, revision_number) ==
    datasource_id = NoneV /\ revision_number = NoneV

\* Line 449: an argument of delete_revision is missing
revision_args_missing(datasource_id, revision_number) ==
    datasource_id = NoneV \/ revision_number = NoneV

delete_revision ==
    /\ pc = "idle"
    /\ check_at_least_version(version, <<2, 3>>)
    /\ \E datasource_id \in Ids, revision_number \in Revs :
        LET a == [datasource_id |-> datasource_id, revision_number |-> revision_number]
            \* "/".join([self.baseurl, datasource_id, "revisions", revision_number])
            url == baseurl \o <<datasource_id, "revisions", revision_number>>
            del == Call("DELETE", url, <<>>, NoneV)
        IN  IF revision_args_missing(datasource_id, revision_number)
            THEN Finish("delete_revision", a, <<>>, Raise("ValueError"), NoItem)
            ELSE \/ \E e \in TransportErrors :
                      Finish("delete_revision", a, <<Failed(del, e)>>, Raise(e), NoItem)
                 \/ Finish("delete_revision", a, <<del>>, Return(Val("None", NoneV)), NoItem)

-----------------------------------------------------------------------------
(* Refresh / extract lifecycle *)

\* The two forms of the datasource_item argument: an item object with an id
\* attribute, or a raw id string (which has no id attribute)
ItemArg(i) == [form |-> "item", id |-> i, raw |-> NoneV]

RawArg(s) == [form |-> "raw", id |-> NoneV, raw |-> s]

Targets == {ItemArg(i) : i \in Ids} \cup {RawArg(s) : s \in Ids}

\* getattr_id without the default
getattr_id_NoDefault(x) == x.id

\* getattr(datasource_item, "id", datasource_item)
getattr_id(x) == IF x.form = "item" THEN x.id ELSE x.raw

refresh ==
    /\ pc = "idle"
    /\ check_at_least_version(version, <<2, 8>>)
    /\ \E datasource_item \in Targets, incremental \in BOOLEAN :
        LET a == [datasource_item |-> datasource_item, incremental |-> incremental]
            id_ == getattr_id(datasource_item)
            url == baseurl \o <<Fmt(id_), "refresh">>
            post == Call("POST", url, <<>>, empty_req)
            it == IF datasource_item.form = "item" THEN Item(datasource_item.id, NoneV) ELSE NoItem
        IN  \/ \E e \in TransportErrors :
                 Finish("refresh", a, <<Failed(post, e)>>, Raise(e), it)
            \/ \E jobs \in Parsed :
                 Finish("refresh", a, <<Answered(post, jobs)>>, First("job", jobs), it)

create_extract ==
    /\ pc = "idle"
    /\ check_at_least_version(version, <<3, 5>>)
    /\ \E datasource_item \in Targets, encrypt \in BOOLEAN :
        LET a == [datasource_item |-> datasource_item, encrypt |-> encrypt]
            id_ == getattr_id(datasource_item)
            url == baseurl \o <<Fmt(id_), "createExtract">>
            post == Call("POST", url, <<<<"encrypt", FmtBool(encrypt)>>>>, empty_req)
            it == IF datasource_item.form = "item" THEN Item(datasource_item.id, NoneV) ELSE NoItem
        IN  \/ \E e \in TransportErrors :
                 Finish("create_extract", a, <<Failed(post, e)>>, Raise(e), it)
            \/ \E jobs \in Parsed :
                 Finish("create_extract", a, <<Answered(post, jobs)>>, First("job", jobs), it)

delete_extract ==
    /\ pc = "idle"
    /\ check_at_least_version(version, <<3, 5>>)
    /\ \E datasource_item \in Targets :
        LET a == [datasource_item |-> datasource_item]
            id_ == getattr_id(datasource_item)
            url == baseurl \o <<Fmt(id_), "deleteExtract">>
            post == Call("POST", url, <<>>, empty_req)
            it == IF datasource_item.form = "item" THEN Item(datasource_item.id, NoneV) ELSE NoItem
        IN  \/ \E e \in TransportErrors :
                 Finish("delete_extract", a, <<Failed(post, e)>>, Raise(e), it)
            \/ \E jobs \in Parsed :
                 Finish("delete_extract", a, <<Answered(post, jobs)>>, Return(Val("None", NoneV)), it)

-----------------------------------------------------------------------------
(* Lazy population of connections and revisions *)

populate_connections ==
    /\ pc = "idle"
    /\ check_at_least_version(version, <<2, 0>>)
    /\ \E id \in Ids :
        LET datasource_item == Item(id, "ds")
            a == [datasource_item |-> ItemArg(id)]
        IN  IF Falsy(datasource_item.id)
            THEN Finish("populate_connections", a, <<>>, Raise("MissingRequiredFieldError"), datasource_item)
            ELSE Finish("populate_connections", a, <<>>, Return(Val("None", NoneV)),
                        [datasource_item EXCEPT !.fetcher = "connections"])

populate_revisions ==
    /\ pc = "idle"
    /\ check_at_least_version(version, <<2, 3>>)
    /\ \E id \in Ids :
        LET datasource_item == Item(id, "ds")
            a == [datasource_item |-> ItemArg(id)]
        IN  IF Falsy(datasource_item.id)
            THEN Finish("populate_revisions", a, <<>>, Raise("MissingRequiredFieldError"), datasource_item)
            ELSE Finish("populate_revisions", a, <<>>, Return(Val("None", NoneV)),
                        [datasource_item EXCEPT !.fetcher = "revisions"])

\* A fetcher the caller runs by reading the lazy attribute of the item that
\* the populate call has just returned
Fetch(o, tr, out) ==
    /\ pc = "done"
    /\ pc' = "done"
    /\ op' = o
    /\ args' = [datasource_item |-> ItemArg(item.id)]
    /\ calls' = tr
    /\ outcome' = out
    /\ UNCHANGED <<version, item, resp, dest>>

\* connections_fetcher(): the caller reads datasource_item.connections
_get_datasource_connections ==
    /\ item.fetcher = "connections"
    /\ LET url == baseurl \o <<Fmt(item.id), "connections">>
           get == Call("GET", url, <<>>, NoneV)
       IN  \/ \E e \in TransportErrors :
                Fetch("_get_datasource_connections", <<Failed(get, e)>>, Raise(e))
           \/ \E connections \in Parsed :
                Fetch("_get_datasource_connections", <<Answered(get, connections)>>,
                      Return(Val("connections", item.id)))

\* revisions_fetcher(): the caller reads datasource_item.revisions
_get_datasource_revisions ==
    /\ item.fetcher = "revisions"
    /\ LET url == baseurl \o <<Fmt(item.id), "revisions">>
           get == Call("GET", url, <<>>, NoneV)
       IN  \/ \E e \in TransportErrors :
                Fetch("_get_datasource_revisions", <<Failed(get, e)>>, Raise(e))
           \/ \E revisions \in Parsed :
                Fetch("_get_datasource_revisions", <<Answered(get, revisions)>>,
                      Return(Val("revisions", item.id)))

-----------------------------------------------------------------------------
(* Update *)

\* Owner and project ids an item may carry
OwnerIds == {NoneV, "owner1"}

ProjectIds == {NoneV, "proj1"}

\* RequestFactory.Datasource.update_req(datasource_item)
update_req(id, owner_id, project_id) ==
    [id |-> id, owner_id |-> owner_id, project_id |-> project_id]

\* TaggingMixin.update_tags: nothing to send when the item's tags are as
\* initially read; otherwise one tag request, which may fail
update_tags(id, dirty) ==
    IF dirty THEN <<Call("TAGS", baseurl \o <<Fmt(id), "tags">>, <<>>, NoneV)>> ELSE <<>>

\* update_needs_project with the owner test forgotten
update_needs_project_AnyOwner(owner_id, project_id, v) ==
    /\ Falsy(project_id)
    /\ ~check_at_least_version(v, <<3, 15>>)

\* Lines 150-151: before 3.15 a new owner needs the project id
update_needs_project(owner_id, project_id, v) ==
    /\ ~Falsy(owner_id)
    /\ Falsy(project_id)
    /\ ~check_at_least_version(v, <<3, 15>>)

\* update that sends the PUT before it commits the tags
update_PutFirst ==
    /\ pc = "idle"
    /\ check_at_least_version(version, <<2, 0>>)
    /\ \E id \in Ids, owner_id \in OwnerIds, project_id \in ProjectIds, tags_dirty \in BOOLEAN :
        LET datasource_item == Item(id, "ds")
            a == [datasource_item |-> ItemArg(id), owner_id |-> owner_id,
                  project_id |-> project_id, tags_dirty |-> tags_dirty]
            tags == update_tags(id, tags_dirty)
            url == baseurl \o <<Fmt(id)>>
            put == Call("PUT", url, <<>>, update_req(id, owner_id, project_id))
        IN  IF Falsy(datasource_item.id)
            THEN Finish("update", a, <<>>, Raise("MissingRequiredFieldError"), datasource_item)
            ELSE IF update_needs_project(owner_id, project_id, version)
            THEN Finish("update", a, <<>>, Raise("MissingRequiredFieldError"), datasource_item)
            ELSE \/ \E e \in TransportErrors :
                      Finish("update", a, <<Failed(put, e)>>, Raise(e), datasource_item)
                 \/ /\ tags # <<>>
                    /\ \E e \in TransportErrors :
                         Finish("update", a, <<put, Failed(tags[1], e)>>, Raise(e), datasource_item)
                 \/ Finish("update", a, <<put>> \o tags, Return(Val("copy", id)), datasource_item)

update ==
    /\ pc = "idle"
    /\ check_at_least_version(version, <<2, 0>>)
    /\ \E id \in Ids, owner_id \in OwnerIds, project_id \in ProjectIds, tags_dirty \in BOOLEAN :
        LET datasource_item == Item(id, "ds")
            a == [datasource_item |-> ItemArg(id), owner_id |-> owner_id,
                  project_id |-> project_id, tags_dirty |-> tags_dirty]
            tags == update_tags(id, tags_dirty)
            url == baseurl \o <<Fmt(id)>>
            put == Call("PUT", url, <<>>, update_req(id, owner_id, project_id))
        IN  IF Falsy(datasource_item.id)
            THEN Finish("update", a, <<>>, Raise("MissingRequiredFieldError"), datasource_item)
            ELSE IF update_needs_project(owner_id, project_id, version)
            THEN Finish("update", a, <<>>, Raise("MissingRequiredFieldError"), datasource_item)
            ELSE \/ /\ tags # <<>>
                    /\ \E e \in TransportErrors :
                         Finish("update", a, <<Failed(tags[1], e)>>, Raise(e), datasource_item)
                 \/ \E e \in TransportErrors :
                      Finish("update", a, tags \o <<Failed(put, e)>>, Raise(e), datasource_item)
                 \/ Finish("update", a, tags \o <<put>>, Return(Val("copy", id)), datasource_item)

\* Connection ids a connection item may carry
ConnIds == {NoneV, "other"}

update_connection ==
    /\ pc = "idle"
    /\ check_at_least_version(version, <<2, 3>>)
    /\ \E id \in Ids, connection_id \in ConnIds :
        LET datasource_item == Item(id, "ds")
            a == [datasource_item |-> ItemArg(id), connection_item |-> ItemArg(connection_id)]
            url == baseurl \o <<Fmt(id), "connections", Fmt(connection_id)>>
            put == Call("PUT", url, <<>>, [id |-> connection_id])
        IN  \/ \E e \in TransportErrors :
                 Finish("update_connection", a, <<Failed(put, e)>>, Raise(e), datasource_item)
            \/ \E connections \in Parsed :
                 LET matching == SelectSeq(connections, LAMBDA x : x = connection_id)
                 IN  Finish("update_connection", a, <<Answered(put, connections)>>,
                            IF connections = <<>> THEN Return(Val("None", NoneV))
                            ELSE First("connection", matching),
                            datasource_item)

-----------------------------------------------------------------------------
(* Publish *)

\* config.FILESIZE_LIMIT_MB
FILESIZE_LIMIT_MB == 64

\* BYTES_PER_MB
BYTES_PER_MB == 1048576

\* ALLOWED_FILE_EXTENSIONS
ALLOWED_FILE_EXTENSIONS == {"tds", "tdsx", "tde", "hyper", "parquet"}

\* Server.PublishMode
PublishMode == {"Append", "Overwrite", "CreateNew"}

\* How far the sizes tried lie around the single-shot limit
SizeSpread == 1

\* File sizes tried: around FILESIZE_LIMIT_MB * BYTES_PER_MB
Sizes == {FILESIZE_LIMIT_MB * BYTES_PER_MB + d : d \in (0 - SizeSpread)..SizeSpread}

\* Names a datasource item may carry
Names == {NoneV, "", "ds"}

\* Extensions of the local files tried ("" = the name has no dot)
Exts == {"tds", "tdsx", "txt", ""}

\* Modes a caller may pass
Modes == {NoneV, "", "CreateNew", "Overwrite", "Replace"}

\* The classes of the file argument
PathClasses == {"str", "Path", "PurePath"}

StreamClasses == {"BytesIO", "BufferedReader"}

\* file arguments: class, and what the file system / the content holds
PathFiles ==
    {[class |-> c, isfile |-> TRUE, stem |-> "sales", ext |-> e, size |-> n, type |-> NoneV] :
        c \in PathClasses, e \in Exts, n \in Sizes}
    \cup {[class |-> c, isfile |-> FALSE, stem |-> "sales", ext |-> "tds", size |-> 0, type |-> NoneV] :
        c \in PathClasses}

StreamFiles ==
    {[class |-> c, isfile |-> FALSE, stem |-> NoneV, ext |-> NoneV, size |-> n, type |-> t] :
        c \in StreamClasses, n \in Sizes, t \in {"zip", "xml", "other"}}

OtherFiles == {[class |-> "int", isfile |-> FALSE, stem |-> NoneV, ext |-> NoneV, size |-> 0, type |-> NoneV]}

Files == PathFiles \cup StreamFiles \cup OtherFiles

\* isinstance(file, (os.PathLike, str))
IsPathLikeOrStr(file) == file.class \in {"str", "Path", "PurePath"}

\* isinstance(file, (Path, str))
IsPathOrStr(file) == file.class \in {"str", "Path"}

\* isinstance(file, io_types_r)
IsIoTypeR(file) == file.class \in {"BytesIO", "BufferedReader"}

\* mode.lower()
Lower(mode) ==
    CASE mode = "Append" -> "append"
      [] mode = "Overwrite" -> "overwrite"
      [] mode = "CreateNew" -> "createnew"
      [] OTHER -> mode

\* A collaborator call that is not a network call: content sniffing, reading
Local(kind) == Call(kind, <<>>, <<>>, NoneV)

\* Lines 228-262: resolve filename, extension and size from the file argument.
\* err is the exception raised (NoneV: none), name the item's name afterwards.
publish_resolve(name, file) ==
    IF IsPathLikeOrStr(file)
    THEN IF ~file.isfile
         THEN [err |-> "OSError", tr |-> <<>>, name |-> name, stem |-> NoneV, ext |-> NoneV, size |-> 0]
         ELSE LET named == IF Falsy(name) THEN file.stem ELSE name
              IN  [err |-> IF file.ext \notin ALLOWED_FILE_EXTENSIONS THEN "ValueError" ELSE NoneV,
                   tr |-> <<>>, name |-> named, stem |-> file.stem, ext |-> file.ext, size |-> file.size]
    ELSE IF IsIoTypeR(file)
    THEN IF Falsy(name)
         THEN [err |-> "ValueError", tr |-> <<>>, name |-> name, stem |-> NoneV, ext |-> NoneV, size |-> 0]
         ELSE LET file_extension == CASE file.type = "zip" -> "tdsx"
                                      [] file.type = "xml" -> "tds"
                                      [] OTHER -> NoneV
              IN  [err |-> IF file_extension = NoneV THEN "ValueError" ELSE NoneV,
                   tr |-> <<Local("get_file_type")>>, name |-> name, stem |-> name,
                   ext |-> file_extension, size |-> file.size]
    ELSE [err |-> "TypeError", tr |-> <<>>, name |-> name, stem |-> NoneV, ext |-> NoneV, size |-> 0]

\* ValidMode with the membership test forgotten
ValidMode_NotEmptyOnly(mode) == ~Falsy(mode)

\* Line 266: the mode is given and a member of PublishMode
ValidMode(mode) == ~Falsy(mode) /\ mode \in PublishMode

\* Lines 265-273: the publish URL's query
publish_query(ext, mode, as_job) ==
    <<<<"datasourceType", ext>>, <<Lower(mode), "true">>>>
        \o (IF as_job THEN <<<<"asJob", "true">>>> ELSE <<>>)

\* Line 276: chunking is required
NeedsChunking(file_size) == file_size >= FILESIZE_LIMIT_MB * BYTES_PER_MB

\* Upload session ids the file-upload collaborator may return
SessionIds == {"sess1", "sess2"}

\* Codes an InternalServerError may carry
ServerErrorCodes == {500, 504}

TimeoutContent == "Timeout error while publishing. Please use asynchronous publishing to avoid timeouts."

ServerContent == "server error body"

\* publish_reraise that forgets the as_job test
publish_reraise_AnyTimeout(code, as_job) ==
    [Raise("InternalServerError") EXCEPT
        !.code = code,
        !.content = IF code = 504 THEN TimeoutContent ELSE ServerContent]

\* Lines 309-312: the handler of InternalServerError around the publish POST
publish_reraise(code, as_job) ==
    [Raise("InternalServerError") EXCEPT
        !.code = code,
        !.content = IF code = 504 /\ ~as_job THEN TimeoutContent ELSE ServerContent]

\* Lines 306-321: send the request and interpret the response
publish_send(a, tr, post, as_job, it) ==
    \/ \E code \in ServerErrorCodes :
         Finish("publish", a, tr \o <<[Failed(post, "InternalServerError") EXCEPT !.code = code]>>,
                publish_reraise(code, as_job), it)
    \/ Finish("publish", a, tr \o <<Failed(post, "ServerResponseError")>>,
              Raise("ServerResponseError"), it)
    \/ \E items \in Parsed :
         Finish("publish", a, tr \o <<Answered(post, items)>>,
                IF as_job THEN First("job", items) ELSE First("datasource", items), it)

publish ==
    /\ pc = "idle"
    /\ check_at_least_version(version, <<2, 0>>)
    /\ \E name \in Names, file \in Files, mode \in Modes, as_job \in BOOLEAN :
        LET a == [name |-> name, file |-> file, mode |-> mode, as_job |-> as_job]
            r == publish_resolve(name, file)
            it == Item(NoneV, r.name)
            query == publish_query(r.ext, mode, as_job)
        IN  IF r.err # NoneV
            THEN Finish("publish", a, r.tr, Raise(r.err), it)
            ELSE IF ~ValidMode(mode)
            THEN Finish("publish", a, r.tr, Raise("ValueError"), it)
            ELSE IF NeedsChunking(r.size)
            THEN LET up == Call("UPLOAD", <<"fileUploads">>, <<>>, NoneV)
                 IN  \/ \E e \in TransportErrors :
                          Finish("publish", a, r.tr \o <<Failed(up, e)>>, Raise(e), it)
                     \/ \E upload_session_id \in SessionIds :
                          publish_send(a, r.tr \o <<Answered(up, <<upload_session_id>>)>>,
                                       Call("POST", baseurl,
                                            query \o <<<<"uploadSessionId", upload_session_id>>>>,
                                            "publish_req_chunked"),
                                       as_job, it)
            ELSE IF IsPathOrStr(file) \/ IsIoTypeR(file)
            THEN publish_send(a, r.tr \o <<Local("read")>>,
                              Call("POST", baseurl, query, "publish_req"), as_job, it)
            ELSE Finish("publish", a, r.tr, Raise("TypeError"), it)

-----------------------------------------------------------------------------
(* Hyper-data update *)

\* Request ids a caller may pass
RequestIds == {"rid1", "rid2"}

\* payload: None, or a path that is or is not an existing file
Payloads == {[given |-> FALSE, isfile |-> FALSE], [given |-> TRUE, isfile |-> FALSE],
             [given |-> TRUE, isfile |-> TRUE]}

\* datasource_or_connection_item: a DatasourceItem, a ConnectionItem or a raw id
HyperTargets ==
    {[class |-> "DatasourceItem", id |-> i, datasource_id |-> NoneV] : i \in Ids}
    \cup {[class |-> "ConnectionItem", id |-> c, datasource_id |-> i] : c \in ConnIds, i \in Ids}
    \cup {[class |-> "raw", id |-> i, datasource_id |-> NoneV] : i \in Ids}

\* hyper_url that addresses a connection item like a datasource
hyper_url_IdOnly(x) == baseurl \o <<Fmt(x.id), "data">>

\* Lines 332-341: the target URL
hyper_url(x) ==
    IF x.class = "DatasourceItem" THEN baseurl \o <<Fmt(x.id), "data">>
    ELSE IF x.class = "ConnectionItem"
    THEN baseurl \o <<Fmt(x.datasource_id), "connections", Fmt(x.id), "data">>
    ELSE baseurl \o <<Fmt(x.id), "data">>

hyper_patch(a, tr, url, query, request_id, it) ==
    LET patch == [Call("PATCH", url, query, "actions") EXCEPT !.reqid = request_id]
    IN  \/ \E e \in TransportErrors :
             Finish("update_hyper_data", a, tr \o <<Failed(patch, e)>>, Raise(e), it)
        \/ \E jobs \in Parsed :
             Finish("update_hyper_data", a, tr \o <<Answered(patch, jobs)>>, First("job", jobs), it)

update_hyper_data ==
    /\ pc = "idle"
    /\ check_at_least_version(version, <<3, 13>>)
    /\ \E x \in HyperTargets, request_id \in RequestIds, payload \in Payloads :
        LET a == [datasource_or_connection_item |-> x, request_id |-> request_id, payload |-> payload]
            it == IF x.class = "DatasourceItem" THEN Item(x.id, NoneV) ELSE NoItem
            url == hyper_url(x)
            up == Call("UPLOAD", <<"fileUploads">>, <<>>, NoneV)
            body ==
                IF ~payload.given
                THEN hyper_patch(a, <<>>, url, <<>>, request_id, it)
                ELSE IF ~payload.isfile
                THEN Finish("update_hyper_data", a, <<>>, Raise("OSError"), it)
                ELSE \/ \E e \in TransportErrors :
                          Finish("update_hyper_data", a, <<Failed(up, e)>>, Raise(e), it)
                     \/ \E upload_session_id \in SessionIds :
                          hyper_patch(a, <<Answered(up, <<upload_session_id>>)>>, url,
                                      <<<<"uploadSessionId", upload_session_id>>>>, request_id, it)
        IN  \* assert isinstance(datasource_or_connection_item, str): raises for a
            \* raw None unless assertions are compiled out (python -O)
            \/ /\ x.class = "raw" /\ x.id = NoneV
               /\ Finish("update_hyper_data", a, <<>>, Raise("AssertionError"), it)
            \/ body

-----------------------------------------------------------------------------
(* Download (current and revision) *)

\* Longest response body, in chunks of 1KB
MaxChunks == 2

\* Contents a chunk may have
ChunkValues == {"k1", "k2"}

Bodies == SeqsUpTo(ChunkValues, MaxChunks)

\* Filenames a Content-Disposition header may suggest, as character sequences
HeaderNames == {<<>>, <<"a">>, <<"d", "/", "a">>, <<"a", "?">>}

\* The Content-Disposition header of a response: absent, or present with the
\* filename Message.get_filename(failobj="") finds in it ("" when it has none)
Dispositions ==
    {[present |-> FALSE, filename |-> <<>>]} \cup {[present |-> TRUE, filename |-> n] : n \in HeaderNames}

\* filepath: None, a path, or a writable stream
Destinations ==
    {[class |-> "None", path |-> NoneV], [class |-> "str", path |-> "out"],
     [class |-> "BytesIO", path |-> NoneV], [class |-> "BufferedWriter", path |-> NoneV]}

\* isinstance(filepath, io_types_w)
IsIoTypeW(filepath) == filepath.class \in {"BytesIO", "BufferedWriter"}

\* os.path.basename: what follows the last "/"
RECURSIVE basename(_)
basename(s) ==
    IF s = <<>> THEN <<>>
    ELSE IF s[Len(s)] = "/" THEN <<>>
    ELSE Append(basename(SubSeq(s, 1, Len(s) - 1)), s[Len(s)])

\* to_filename: keeps alphanumerics and " ", ".", "_", "-"
to_filename(s) == SelectSeq(s, LAMBDA c : c \in {"a", "d", " ", ".", "_", "-"})

\* make_download_path(filepath, filename): the path computed from both
make_download_path(filepath, filename) == [base |-> filepath.path, name |-> filename]

\* os.path.abspath
abspath(p) == [cwd |-> "cwd", rel |-> p]

\* Lines 416-425: the content URL
download_url(datasource_id, revision_number) ==
    IF revision_number = NoneV
    THEN baseurl \o <<Fmt(datasource_id), "content">>
    ELSE baseurl \o <<Fmt(datasource_id), "revisions", revision_number, "content">>

download_query(include_extract) ==
    IF ~include_extract THEN <<<<"includeExtract", "False">>>> ELSE <<>>

\* closing_exit that closes on normal exit only
closing_exit_NormalOnly(r, raised) == IF raised THEN r ELSE [r EXCEPT !.open = @ - 1]

\* closing(...).__exit__: the response is closed however the block is left
closing_exit(r, raised) == [r EXCEPT !.open = @ - 1]

\* Lines 416-427: validate, build the URL, open the streamed response
download_enter(o, datasource_id, revision_number, filepath, include_extract) ==
    LET a == [datasource_id |-> datasource_id, revision_number |-> revision_number,
              filepath |-> filepath, include_extract |-> include_extract]
        get == Call("GET", download_url(datasource_id, revision_number),
                    download_query(include_extract), NoneV)
    IN  IF Falsy(datasource_id)
        THEN Finish(o, a, <<>>, Raise("ValueError"), NoItem)
        ELSE \/ \E e \in TransportErrors : Finish(o, a, <<Failed(get, e)>>, Raise(e), NoItem)
             \/ \E cd \in Dispositions, body \in Bodies :
                  /\ pc' = "with"
                  /\ op' = o
                  /\ args' = a
                  /\ calls' = <<get>>
                  /\ outcome' = NoOutcome
                  /\ item' = NoItem
                  /\ resp' = [open |-> resp.open + 1, cd |-> cd, chunks |-> body, body |-> body]
                  /\ dest' = NoDest
                  /\ UNCHANGED version

download_revision ==
    /\ pc = "idle"
    /\ check_at_least_version(version, <<2, 3>>)
    /\ \E datasource_id \in Ids, revision_number \in Revs,
          filepath \in Destinations, include_extract \in BOOLEAN :
        download_enter("download_revision", datasource_id, revision_number, filepath, include_extract)

download ==
    /\ pc = "idle"
    /\ check_at_least_version(version, <<2, 0>>)
    /\ \E datasource_id \in Ids, filepath \in Destinations, include_extract \in BOOLEAN :
        download_enter("download", datasource_id, NoneV, filepath, include_extract)

\* download_return without os.path.abspath
download_return_Relative(filepath, download_path) ==
    IF IsIoTypeW(filepath) THEN Val("filepath", filepath) ELSE Val("path", download_path)

\* Lines 434 and 442: return_path
download_return(filepath, download_path) ==
    IF IsIoTypeW(filepath) THEN Val("filepath", filepath) ELSE Val("path", abspath(download_path))

\* The with block is left: by an exception, or by falling off its end
download_leave(out, d) ==
    /\ pc' = "done"
    /\ outcome' = out
    /\ resp' = closing_exit(resp, out.kind = "raise")
    /\ dest' = d
    /\ UNCHANGED <<version, op, args, calls, item>>

\* Lines 428-439: read the header, pick the destination, open the file.
\* fix_filename (line 436) hands a plain filename string back as it got it.
download_header ==
    /\ pc = "with"
    /\ IF ~resp.cd.present
       THEN download_leave(Raise("KeyError"), dest)
       ELSE IF IsIoTypeW(args.filepath)
       THEN /\ pc' = "stream"
            /\ UNCHANGED <<version, op, args, calls, outcome, item, resp, dest>>
       ELSE LET filename == to_filename(basename(resp.cd.filename))
                download_path == make_download_path(args.filepath, filename)
            IN  \/ download_leave(Raise("TypeError"), dest)
                \/ download_leave(Raise("OSError"), dest)
                \/ /\ pc' = "file"
                   /\ dest' = [dest EXCEPT !.files = @ \cup {download_path}, !.path = download_path]
                   /\ UNCHANGED <<version, op, args, calls, outcome, item, resp>>

\* Lines 432-434 and 440-442: one turn of the chunk loop, or its end
download_chunk ==
    /\ pc \in {"stream", "file"}
    /\ IF resp.chunks # <<>>
       THEN \/ download_leave(Raise("ChunkedEncodingError"), dest)
            \/ download_leave(Raise("OSError"), dest)
            \/ /\ dest' = [dest EXCEPT !.written = Append(@, Head(resp.chunks))]
               /\ resp' = [resp EXCEPT !.chunks = Tail(@)]
               /\ UNCHANGED <<version, pc, op, args, calls, outcome, item>>
       ELSE download_leave(Return(download_return(args.filepath, dest.path)), dest)

-----------------------------------------------------------------------------
(* The caller and the server *)

\* The caller takes the result; the endpoint keeps nothing of the call
call_returns ==
    /\ pc = "done"
    /\ pc' = "idle"
    /\ op' = "none"
    /\ args' = [datasource_id |-> NoneV]
    /\ calls' = <<>>
    /\ outcome' = NoOutcome
    /\ item' = NoItem
    /\ resp' = NoResp
    /\ dest' = NoDest
    /\ UNCHANGED version

Init ==
    /\ version \in Versions
    /\ pc = "idle"
    /\ op = "none"
    /\ args = [datasource_id |-> NoneV]
    /\ calls = <<>>
    /\ outcome = NoOutcome
    /\ item = NoItem
    /\ resp = NoResp
    /\ dest = NoDest

Next ==
    \/ get_by_id
    \/ delete
    \/ delete_revision
    \/ refresh
    \/ create_extract
    \/ delete_extract
    \/ populate_connections
    \/ populate_revisions
    \/ _get_datasource_connections
    \/ _get_datasource_revisions
    \/ update
    \/ update_connection
    \/ publish
    \/ update_hyper_data
    \/ download
    \/ download_revision
    \/ download_header
    \/ download_chunk
    \/ call_returns

Spec == Init /\ [][Next]_vars

-----------------------------------------------------------------------------
(* Properties *)

\* The call named o has ended
Ended(o) == pc = "done" /\ op = o

\* The datasource id a call was given, directly or as the id of its item
GivenId ==
    CASE op \in {"get_by_id", "delete", "download", "download_revision", "delete_revision"} ->
            args.datasource_id
      [] op \in {"populate_connections", "populate_revisions", "update", "update_connection"} ->
            args.datasource_item.id
      [] op \in {"refresh", "create_extract", "delete_extract"} ->
            IF args.datasource_item.form = "item" THEN args.datasource_item.id
            ELSE args.datasource_item.raw
      [] op = "update_hyper_data" ->
            IF args.datasource_or_connection_item.class = "ConnectionItem"
            THEN args.datasource_or_connection_item.datasource_id
            ELSE args.datasource_or_connection_item.id
      [] OTHER -> "n/a"

IdOps == {"get_by_id", "delete", "download", "download_revision", "delete_revision",
          "populate_connections", "populate_revisions", "update", "update_connection",
          "refresh", "create_extract", "delete_extract", "update_hyper_data"}

\* C1: every operation that needs a datasource id, called with None or "" as
\* the id (directly or as the id of the item), ends in an invalid-argument or
\* missing-required-field failure and has issued no network call.
C1_FalsyIdFailsFast ==
    (pc = "done" /\ op \in IdOps /\ Falsy(GivenId)) =>
        /\ outcome.kind = "raise"
        /\ outcome.exc \in {"ValueError", "MissingRequiredFieldError"}
        /\ NetCalls(calls) = <<>>

\* The part of C1 the operations with an explicit check satisfy
C1_CheckedOps ==
    (pc = "done" /\ Falsy(GivenId)
        /\ op \in {"get_by_id", "delete", "download", "download_revision",
                   "populate_connections", "populate_revisions", "update"}) =>
        /\ outcome.kind = "raise"
        /\ outcome.exc \in {"ValueError", "MissingRequiredFieldError"}
        /\ NetCalls(calls) = <<>>

\* The validation failures of publish, stated on its arguments
PublishInvalid ==
    LET f == args.file
        isPath == f.class \in {"str", "Path", "PurePath"}
        isStream == f.class \in {"BytesIO", "BufferedReader"}
    IN  \/ isPath /\ ~f.isfile
        \/ isPath /\ f.isfile /\ f.ext \notin ALLOWED_FILE_EXTENSIONS
        \/ isStream /\ Falsy(args.name)
        \/ isStream /\ f.type \notin {"zip", "xml"}
        \/ ~isPath /\ ~isStream
        \/ Falsy(args.mode)
        \/ args.mode \notin PublishMode

\* C2: every validation failure of publish is raised before any network
\* call (no upload-session acquisition, no POST), and a stream whose item has
\* no name fails before get_file_type is called.
C2_PublishValidatesFirst ==
    (Ended("publish") /\ PublishInvalid) =>
        /\ outcome.kind = "raise"
        /\ outcome.exc \in {"OSError", "ValueError", "TypeError"}
        /\ NetCalls(calls) = <<>>
        /\ (args.file.class \in {"BytesIO", "BufferedReader"} /\ Falsy(args.name)) =>
               OfKind(calls, "get_file_type") = <<>>

\* A sniffed, named stream at the chunking limit is rejected for its mode
C2_Witness ==
    /\ Ended("publish")
    /\ args.file.class = "BytesIO" /\ args.name = "ds" /\ args.file.type = "zip"
    /\ args.file.size >= FILESIZE_LIMIT_MB * BYTES_PER_MB
    /\ args.mode = "Replace"
    /\ outcome.exc = "ValueError"
    /\ OfKind(calls, "get_file_type") # <<>>

\* Position of the first call of kind k in the trace (0: none)
FirstAt(tr, k) ==
    IF \E i \in 1..Len(tr) : tr[i].kind = k
    THEN CHOOSE i \in 1..Len(tr) : tr[i].kind = k /\ \A j \in 1..(i - 1) : tr[j].kind # k
    ELSE 0

\* What C3 says of a publish call whose arguments file satisfies
PublishKindBySize ==
    LET posts == OfKind(calls, "POST")
        ups == OfKind(calls, "UPLOAD")
    IN  IF args.file.size < FILESIZE_LIMIT_MB * BYTES_PER_MB
        THEN /\ Len(posts) = 1
             /\ posts[1].body = "publish_req"
             /\ ups = <<>>
        ELSE /\ Len(ups) = 1
             /\ FirstAt(NetCalls(calls), "UPLOAD") = 1
             /\ OfKind(calls, "read") = <<>>
             /\ ups[1].ok =>
                    /\ Len(posts) = 1
                    /\ FirstAt(calls, "UPLOAD") < FirstAt(calls, "POST")
                    /\ \E q \in 1..Len(posts[1].query) :
                           posts[1].query[q] = <<"uploadSessionId", ups[1].parsed[1]>>

\* C3: with valid inputs the request kind of publish is decided by the size
\* alone: below the limit exactly one single-shot POST and no upload session;
\* at or above it the upload session first, then the POST carrying its id.
C3_PublishKindBySize ==
    (Ended("publish") /\ ~PublishInvalid) => PublishKindBySize

\* The same for the path classes the single-shot branch accepts, and streams
C3_ExceptOtherPathLike ==
    (Ended("publish") /\ ~PublishInvalid /\ args.file.class # "PurePath") => PublishKindBySize

\* The server is older than 3.15
Below315 == version[1] < 3 \/ (version[1] = 3 /\ version[2] < 15)

\* An update call for a new owner without a project id
OwnerWithoutProject ==
    /\ Ended("update")
    /\ ~Falsy(args.datasource_item.id)
    /\ args.owner_id # NoneV
    /\ args.project_id = NoneV

\* The version check never fails an update that names no owner or a project
C4_NoFailureOtherwise ==
    (Ended("update") /\ ~Falsy(args.datasource_item.id)
        /\ (args.owner_id = NoneV \/ args.project_id # NoneV)) =>
        ~(outcome.kind = "raise" /\ outcome.exc = "MissingRequiredFieldError")

C4_BelowFails ==
    (OwnerWithoutProject /\ Below315) =>
        /\ outcome.kind = "raise"
        /\ outcome.exc = "MissingRequiredFieldError"
        /\ calls = <<>>

\* C4 as stated: below 3.15 an update with an owner id and no project id
\* fails with missing-required-field and no network call; from 3.15 on it
\* passes validation and proceeds to the PUT without a project id; with no
\* owner id, or with a project id, the version check never fails the call.
C4_Original ==
    /\ C4_BelowFails
    /\ (OwnerWithoutProject /\ ~Below315) =>
           /\ outcome.exc # "MissingRequiredFieldError"
           /\ Len(OfKind(calls, "PUT")) = 1
           /\ OfKind(calls, "PUT")[1].body.project_id = NoneV
    /\ C4_NoFailureOtherwise

\* C4 amended: from 3.15 on the call passes validation and proceeds to the
\* tag commit and then, unless the tag commit raised, to exactly one PUT
\* without a project id; if the tag commit raised no PUT is issued.
C4_UpdateVersionGate ==
    /\ C4_BelowFails
    /\ (OwnerWithoutProject /\ ~Below315) =>
           /\ outcome.exc # "MissingRequiredFieldError"
           /\ LET tagFailed == \E i \in 1..Len(calls) : calls[i].kind = "TAGS" /\ ~calls[i].ok
              IN  IF tagFailed
                  THEN OfKind(calls, "PUT") = <<>>
                  ELSE /\ Len(OfKind(calls, "PUT")) = 1
                       /\ OfKind(calls, "PUT")[1].body.project_id = NoneV
                       /\ calls[Len(calls)].kind = "PUT"
    /\ C4_NoFailureOtherwise

\* On 4.0 an update for a new owner without a project id reaches the PUT
C4_Witness ==
    /\ OwnerWithoutProject
    /\ version = <<4, 0>>
    /\ outcome.kind = "return"
    /\ Len(OfKind(calls, "PUT")) = 1

Downloads == {"download", "download_revision"}

\* C5: the streamed response of download / download_revision is closed when
\* the call ends, on every exit path, and at most one response is ever open.
C5_ResponseClosed ==
    /\ resp.open \in {0, 1}
    /\ pc \in {"idle", "done"} => resp.open = 0

\* A download that failed while writing, after a chunk had been written
C5_Witness ==
    /\ pc = "done" /\ op \in Downloads
    /\ Len(calls) = 1 /\ calls[1].ok
    /\ outcome.kind = "raise" /\ outcome.exc = "OSError"
    /\ dest.written # <<>>
    /\ resp.chunks # <<>>

\* C6: a download that returns has written every chunk of the response in
\* order; to a stream destination, creating no file and returning that
\* stream; otherwise to one new file at the download path computed from the
\* sanitized Content-Disposition filename, returning the absolute path.
C6_DownloadDestination ==
    (pc = "done" /\ op \in Downloads /\ outcome.kind = "return") =>
        /\ dest.written = resp.body
        /\ IF args.filepath.class \in {"BytesIO", "BufferedWriter"}
           THEN /\ dest.files = {}
                /\ outcome.value = Val("filepath", args.filepath)
           ELSE LET name == to_filename(basename(resp.cd.filename))
                    path == make_download_path(args.filepath, name)
                IN  /\ \A i \in 1..Len(name) : name[i] \notin {"/", "?"}
                    /\ dest.files = {path}
                    /\ outcome.value = Val("path", abspath(path))

\* A two-chunk download to a path, the header naming a file in a directory
C6_Witness ==
    /\ pc = "done" /\ op = "download" /\ outcome.kind = "return"
    /\ args.filepath.class = "str"
    /\ resp.cd.filename = <<"d", "/", "a">>
    /\ dest.written = <<"k1", "k2">>

\* C7: an InternalServerError from the publish POST is always re-raised, with
\* the timeout message as content iff its code is 504 and as_job is false,
\* and unchanged otherwise; the POST is not retried, and a publish call in
\* which a collaborator failed returns nothing.
C7_PublishReraises ==
    Ended("publish") =>
        /\ Len(OfKind(calls, "POST")) <= 1
        /\ (\E i \in 1..Len(calls) : ~calls[i].ok) => outcome.kind = "raise"
        /\ \A i \in 1..Len(calls) :
             (calls[i].kind = "POST" /\ calls[i].err = "InternalServerError") =>
                 /\ outcome.kind = "raise"
                 /\ outcome.exc = "InternalServerError"
                 /\ outcome.code = calls[i].code
                 /\ outcome.content =
                        IF calls[i].code = 504 /\ ~args.as_job THEN TimeoutContent
                        ELSE ServerContent

\* A 504 on an asynchronous publish keeps the server's content
C7_Witness ==
    /\ Ended("publish")
    /\ args.as_job
    /\ outcome.exc = "InternalServerError" /\ outcome.code = 504
    /\ outcome.content = ServerContent

\* C8: get_by_id with a non-empty id issues exactly one GET; if the response
\* parses to no item the call fails (IndexError, the not-found signal), else
\* it returns the first parsed item.
C8_GetById ==
    (Ended("get_by_id") /\ ~Falsy(args.datasource_id)) =>
        /\ Len(calls) = 1
        /\ calls[1].kind = "GET"
        /\ calls[1].path = baseurl \o <<args.datasource_id>>
        /\ calls[1].ok =>
               IF calls[1].parsed = <<>>
               THEN outcome.kind = "raise" /\ outcome.exc = "IndexError"
               ELSE outcome = Return(Val("datasource", calls[1].parsed[1]))

\* Two different items parsed: the first is returned
C8_Witness ==
    /\ Ended("get_by_id")
    /\ calls # <<>>
    /\ calls[1].parsed = <<"other", "abc123">>
    /\ outcome.kind = "return"

\* C9: delete_revision raises with no request issued whenever datasource_id
\* or revision_number is None; otherwise it issues exactly one DELETE to
\* {baseurl}/{datasource_id}/revisions/{revision_number}.
C9_DeleteRevision ==
    Ended("delete_revision") =>
        IF args.datasource_id = NoneV \/ args.revision_number = NoneV
        THEN outcome.kind = "raise" /\ calls = <<>>
        ELSE /\ Len(calls) = 1
             /\ calls[1].kind = "DELETE"
             /\ calls[1].path = baseurl \o <<args.datasource_id, "revisions", args.revision_number>>

\* delete_revision(None, "5")
C9_Witness ==
    /\ Ended("delete_revision")
    /\ args.datasource_id = NoneV /\ args.revision_number = "5"
    /\ outcome.kind = "raise"

\* The URL segment of each extract action
ActionSegment ==
    [refresh |-> "refresh", create_extract |-> "createExtract", delete_extract |-> "deleteExtract"]

\* C10: refresh, create_extract and delete_extract take the target id from
\* the item's id or from the raw id itself, issue exactly one POST with the
\* empty request body to {baseurl}/{id}/<action> and no other call; refresh
\* and create_extract return the first parsed job, delete_extract nothing.
C10_ExtractActions ==
    (pc = "done" /\ op \in {"refresh", "create_extract", "delete_extract"}) =>
        LET x == args.datasource_item
            target == IF x.form = "item" THEN x.id ELSE x.raw
        IN  /\ Len(calls) = 1
            /\ calls[1].kind = "POST"
            /\ calls[1].body = empty_req
            /\ calls[1].path = baseurl \o <<Fmt(target), ActionSegment[op]>>
            /\ calls[1].ok =>
                   IF op = "delete_extract"
                   THEN outcome = Return(Val("None", NoneV))
                   ELSE calls[1].parsed # <<>> =>
                            outcome = Return(Val("job", calls[1].parsed[1]))

\* refresh of a raw id returns the first of two jobs
C10_Witness ==
    /\ Ended("refresh")
    /\ args.datasource_item = RawArg("abc123")
    /\ calls[1].path = baseurl \o <<"abc123", "refresh">>
    /\ calls[1].parsed = <<"other", "abc123">>
    /\ outcome = Return(Val("job", "other"))

\* C11: when publish fails a validation check the caller's datasource_item
\* is left as it was; in particular an item with an empty name still has an
\* empty name after a disallowed extension or an invalid mode is rejected.
C11_PublishLeavesItem ==
    (Ended("publish") /\ PublishInvalid) => item.name = args.name

\* The validation failures that do leave the item as it was: every one on an
\* item that has a name, and those raised before the name is derived
C11_UnchangedCases ==
    (Ended("publish") /\ PublishInvalid
        /\ \/ ~Falsy(args.name)
           \/ args.file.class \notin {"str", "Path", "PurePath"}
           \/ ~args.file.isfile) =>
        item.name = args.name

\* C12: in update the pending tag changes are committed strictly before the
\* PUT and only after the id and owner/project validations have passed; if
\* the tag commit fails no PUT is issued; at most one PUT is issued per call;
\* the item returned is a copy, not the caller's own item.
C12_TagsBeforePut ==
    Ended("update") =>
        LET n == Len(calls)
            putIssued == \E j \in 1..n : calls[j].kind = "PUT"
        IN  /\ Len(OfKind(calls, "PUT")) <= 1
            /\ \A i, j \in 1..n : (calls[i].kind = "TAGS" /\ calls[j].kind = "PUT") => i < j
            /\ (args.tags_dirty /\ putIssued) => calls[1].kind = "TAGS" /\ calls[1].ok
            /\ (\E i \in 1..n : calls[i].kind = "TAGS" /\ ~calls[i].ok) => ~putIssued
            /\ calls # <<>> =>
                   /\ ~Falsy(args.datasource_item.id)
                   /\ ~(args.owner_id # NoneV /\ args.project_id = NoneV /\ Below315)
            /\ outcome.kind = "return" =>
                   /\ outcome.value.obj = "copy"
                   /\ outcome.value.obj # "item"
                   /\ putIssued

\* An update with pending tag changes that committed them and then sent the PUT
C12_Witness ==
    /\ Ended("update")
    /\ args.tags_dirty
    /\ Len(calls) = 2
    /\ calls[1].kind = "TAGS" /\ calls[2].kind = "PUT"
    /\ outcome.kind = "return"

\* C13: in update_hyper_data a payload path that is not an existing file
\* fails before any network call; an existing payload is uploaded strictly
\* before the PATCH, whose URL carries the returned session id as
\* uploadSessionId; without a payload there is no upload and no session
\* parameter; a successful call has issued exactly one PATCH, with the
\* caller's request_id as requestid header, to {id}/data for a datasource
\* item or raw id and {datasource_id}/connections/{connection_id}/data for a
\* connection item.
C13_HyperData ==
    Ended("update_hyper_data") =>
        LET x == args.datasource_or_connection_item
            p == args.payload
            ups == OfKind(calls, "UPLOAD")
            patches == OfKind(calls, "PATCH")
            target == IF x.class = "ConnectionItem"
                      THEN baseurl \o <<Fmt(x.datasource_id), "connections", Fmt(x.id), "data">>
                      ELSE baseurl \o <<Fmt(x.id), "data">>
        IN  /\ Len(patches) <= 1
            /\ (p.given /\ ~p.isfile) => outcome.kind = "raise" /\ NetCalls(calls) = <<>>
            /\ ~p.given => ups = <<>> /\ \A i \in 1..Len(patches) : patches[i].query = <<>>
            /\ (p.given /\ p.isfile /\ patches # <<>>) =>
                   /\ Len(calls) = 2
                   /\ calls[1].kind = "UPLOAD" /\ calls[1].ok
                   /\ calls[2].kind = "PATCH"
                   /\ calls[2].query = <<<<"uploadSessionId", calls[1].parsed[1]>>>>
            /\ outcome.kind = "return" =>
                   /\ Len(patches) = 1
                   /\ patches[1].reqid = args.request_id
                   /\ patches[1].path = target
                   /\ p.given => Len(ups) = 1

\* A connection item updated with a payload: upload, then the PATCH
C13_Witness ==
    /\ Ended("update_hyper_data")
    /\ args.datasource_or_connection_item.class = "ConnectionItem"
    /\ args.datasource_or_connection_item.datasource_id = "abc123"
    /\ args.payload.given
    /\ args.request_id = "rid2"
    /\ Len(calls) = 2
    /\ calls[2].query = <<<<"uploadSessionId", "sess2">>>>
    /\ outcome.kind = "return"

====
